---------------------------- MODULE Spec2Model ----------------------------
(***************************************************************************)
(* Model of the MongoDB Terraform provider: the provider's Configure       *)
(* (connection resolution), the identifier codec, and the database and     *)
(* collection resources driven by the Terraform host against a remote      *)
(* MongoDB store.                                                          *)
(*                                                                         *)
(* Strings that the code builds, splits or compares are sequences of       *)
(* one-character strings, so that concatenation is \o and strings.Split is *)
(* computed character by character.  Diagnostic titles and call names are  *)
(* never taken apart by the code and stay TLA+ strings.                    *)
(* A Go nil pointer / absent value is the empty sequence None, a present   *)
(* value x is Some(x) = <<x>>.                                             *)
(***************************************************************************)
EXTENDS Integers, Sequences, FiniteSets, TLC

VARIABLES
    pconfig,    \* provider: the configuration handed to Configure (None before)
    presp,      \* provider: the ConfigureResponse and the calls Configure made
    pconnect,   \* provider: what mongo.Connect answers in this run (TRUE = no error)
    codec,      \* identifier codec: the names, the encoded id, the decoded result
    conv,       \* type/value translators: the inputs and the translated values
    remote,     \* the MongoDB server: its collections, each in a database
    tf,         \* host: the state it holds for each resource instance (None: none)
    inflight,   \* a Database Create between its two remote calls: its plan
    pend,       \* host: the planned Create that follows the Delete of a replace
    last        \* the latest handler invocation: request, remote calls, response

pvars == <<pconfig, presp, pconnect>>
cvars == <<codec, conv>>
rvars == <<remote, tf, inflight, pend, last>>
vars == <<pconfig, presp, pconnect, codec, conv, remote, tf, inflight, pend, last>>

None == <<>>
Some(x) == <<x>>

-----------------------------------------------------------------------------
(* String literals of the source, as character sequences.                  *)

StrEmpty == <<>>
StrMongodbScheme == <<"m","o","n","g","o","d","b",":","/","/">>
StrColon == <<":">>
StrAmp == <<"&">>
StrSlashQuestion == <<"/","?">>
StrRetryWritesEq == <<"r","e","t","r","y","w","r","i","t","e","s","=">>
StrSslTrue == <<"s","s","l","=","t","r","u","e">>
StrReplicaSetEq == <<"r","e","p","l","i","c","a","S","e","t","=">>
StrConnectEq == <<"c","o","n","n","e","c","t","=">>
StrDirect == <<"d","i","r","e","c","t">>
StrTrue == <<"t","r","u","e">>
StrFalse == <<"f","a","l","s","e">>
StrDot == <<".">>

\* strconv.FormatBool
FormatBool(b) == IF b THEN StrTrue ELSE StrFalse

\* strings.HasPrefix
HasPrefix(s, prefix) ==
    Len(s) >= Len(prefix) /\ SubSeq(s, 1, Len(prefix)) = prefix

\* Positions of the character c in s.
IndexesOf(s, c) == {i \in 1..Len(s) : s[i] = c}

Min(S) == CHOOSE x \in S : \A y \in S : x <= y

\* No "." occurs in str.
NoDot(str) == IndexesOf(str, ".") = {}

\* strings.Split(s, sep) for a one-character separator: one more piece than
\* there are separators, empty pieces included; Split("", sep) is <<"">>.
RECURSIVE Split(_, _)
Split(s, sep) ==
    IF IndexesOf(s, sep) = {}
    THEN <<s>>
    ELSE LET i == Min(IndexesOf(s, sep))
         IN  <<SubSeq(s, 1, i - 1)>> \o Split(SubSeq(s, i + 1, Len(s)), sep)

-----------------------------------------------------------------------------
(* utils.go                                                                *)

\* addArgs that joins with "&" even for the first argument.
addArgs_AlwaysAmp(arguments, newArg) == arguments \o StrAmp \o newArg

addArgs(arguments, newArg) ==
    IF arguments # StrEmpty
    THEN arguments \o StrAmp \o newArg
    ELSE StrSlashQuestion \o newArg

\* getTLSConfigWithAllServerCertificates as Configure calls it (CA bundle and
\* the verify flag).  x509 CertPool.AppendCertsFromPEM reports ok iff at least
\* one certificate of the bundle parsed; the character "C" stands for one
\* well-formed PEM certificate block, every other character for bytes that
\* are no certificate.  The configuration is allocated and filled before the
\* bundle is parsed, so on a bundle without certificate the helper returns,
\* next to the error, the configuration with the verify flag and an empty pool.
AppendCertsFromPEM(ca) == \E i \in 1..Len(ca) : ca[i] = "C"

getTLSConfigWithAllServerCertificates(ca, verify) ==
    IF ~AppendCertsFromPEM(ca)
    THEN [err |-> TRUE,
          tlsConfig |-> Some([InsecureSkipVerify |-> verify, RootCAs |-> StrEmpty])]
    ELSE [err |-> FALSE,
          tlsConfig |-> Some([InsecureSkipVerify |-> verify, RootCAs |-> ca])]

\* net/url getScheme, the part of url.Parse that decides the proxy strings of
\* the model: letters run on; a digit, "+", "-" or "." at position 0, or any
\* other character, means "no scheme"; ":" at position 0 is the error
\* "missing protocol scheme", later it ends the scheme.
Letters == {"a","b","c","d","e","f","g","h","i","j","k","l","m","n","o","p",
            "q","r","s","t","u","v","w","x","y","z"}
SchemeMarks == {"0","1","2","3","4","5","6","7","8","9","+","-","."}

RECURSIVE getSchemeFrom(_, _)
getSchemeFrom(rawURL, i) ==
    IF i > Len(rawURL) THEN [err |-> FALSE, scheme |-> StrEmpty]
    ELSE IF rawURL[i] \in Letters THEN getSchemeFrom(rawURL, i + 1)
    ELSE IF rawURL[i] \in SchemeMarks
         THEN IF i = 1 THEN [err |-> FALSE, scheme |-> StrEmpty]
              ELSE getSchemeFrom(rawURL, i + 1)
    ELSE IF rawURL[i] = ":"
         THEN IF i = 1 THEN [err |-> TRUE, scheme |-> StrEmpty]
              ELSE [err |-> FALSE, scheme |-> SubSeq(rawURL, 1, i - 1)]
    ELSE [err |-> FALSE, scheme |-> StrEmpty]

urlParse(rawURL) == getSchemeFrom(rawURL, 1)

\* golang.org/x/net/proxy FromURL: socks5 and socks5h are built in; the
\* repository registers no other dialer type.
StrSocks5 == <<"s","o","c","k","s","5">>
StrSocks5h == <<"s","o","c","k","s","5","h">>
proxyFromURLErr(scheme) == scheme \notin {StrSocks5, StrSocks5h}

\* proxyDialer without the guard for the empty string: "" then goes through
\* url.Parse and proxy.FromURL, which knows no scheme "".
proxyDialer_NoEmptyGuard(proxyUrlFromProvider) ==
    LET parsed == urlParse(proxyUrlFromProvider)
    IN  IF parsed.err THEN [err |-> TRUE, dialer |-> None]
        ELSE IF proxyFromURLErr(parsed.scheme)
             THEN [err |-> TRUE, dialer |-> None]
             ELSE [err |-> FALSE, dialer |-> Some(proxyUrlFromProvider)]

proxyDialer(proxyUrlFromProvider) ==
    IF proxyUrlFromProvider # StrEmpty
    THEN LET parsed == urlParse(proxyUrlFromProvider)
         IN  IF parsed.err THEN [err |-> TRUE, dialer |-> None]
             ELSE IF proxyFromURLErr(parsed.scheme)
                  THEN [err |-> TRUE, dialer |-> None]
                  ELSE [err |-> FALSE, dialer |-> Some(proxyUrlFromProvider)]
    ELSE [err |-> FALSE, dialer |-> None]

-----------------------------------------------------------------------------
(* provider.go: mongodbProvider.Configure                                  *)

TitleMissing == "Missing host or url"
TitleConflict == "Conflicting host and url"
TitleProxy == "Unable to create proxy dialer"
TitleCert == "Unable to read certificate"
TitleConnect == "Unable to Create MongoDB Client"

\* The two validation conditions (lines 139 and 148).
MissingHostOrUrl_UrlOnly(config) == config.Url = StrEmpty

MissingHostOrUrl(config) == config.Url = StrEmpty /\ config.Host = StrEmpty

ConflictingHostAndUrl_Never(config) == FALSE

ConflictingHostAndUrl(config) == config.Url # StrEmpty /\ config.Host # StrEmpty

\* The condition under which the replicaSet argument is added (line 173).
WantsReplicaSet_IgnoreDirect(config) == config.ReplicaSet # StrEmpty

WantsReplicaSet(config) == config.ReplicaSet # StrEmpty /\ ~config.Direct

\* A Configure that appends the query arguments to a given url as well.
BuildUri_UrlWithArgs(config) ==
    LET a1 == addArgs(StrEmpty, StrRetryWritesEq \o FormatBool(config.RetryWrites))
        a2 == IF config.SSL THEN addArgs(a1, StrSslTrue) ELSE a1
        a3 == IF WantsReplicaSet(config)
              THEN addArgs(a2, StrReplicaSetEq \o config.ReplicaSet)
              ELSE a2
        a4 == IF config.Direct THEN addArgs(a3, StrConnectEq \o StrDirect) ELSE a3
    IN  IF config.Url # StrEmpty
        THEN config.Url \o a4
        ELSE StrMongodbScheme \o config.Host \o StrColon \o config.Port \o a4

\* The URI Configure assembles (lines 161-182).
BuildUri(config) ==
    IF config.Url # StrEmpty
    THEN config.Url
    ELSE LET a0 == StrEmpty
             a1 == addArgs(a0, StrRetryWritesEq \o FormatBool(config.RetryWrites))
             a2 == IF config.SSL THEN addArgs(a1, StrSslTrue) ELSE a1
             a3 == IF WantsReplicaSet(config)
                   THEN addArgs(a2, StrReplicaSetEq \o config.ReplicaSet)
                   ELSE a2
             a4 == IF config.Direct
                   THEN addArgs(a3, StrConnectEq \o StrDirect)
                   ELSE a3
         IN  StrMongodbScheme \o config.Host \o StrColon \o config.Port \o a4

\* The options handed to mongo.Connect (lines 199-227).
ClientOptions(config, uri, tlsConfig, dialer) ==
    [uri |-> uri,
     auth |-> [AuthSource |-> config.AuthDatabase,
               Username |-> config.Username,
               Password |-> config.Password],
     tlsConfig |-> tlsConfig,
     dialer |-> dialer]

\* What a Configure run leaves behind: the response's diagnostics (titles, in
\* order) and its ResourceData / DataSourceData, with the URI and the client
\* options the run computed and, in order, the helper and driver calls it made.
Response(diags, calls, uri, opts, data) ==
    [Diagnostics |-> diags, calls |-> calls, uri |-> uri, opts |-> opts,
     ResourceData |-> data, DataSourceData |-> data]

\* A connection step that tries mongo.Connect a second time after a failure.
ConnectClient_Retry(opts, calls, connectOk) ==
    IF ~connectOk
    THEN Response(<<TitleConnect>>, calls \o <<"mongo.Connect", "mongo.Connect">>,
                  Some(opts.uri), Some(opts), None)
    ELSE Response(<<>>, Append(calls, "mongo.Connect"),
                  Some(opts.uri), Some(opts), Some(opts))

\* mongo.Connect and the publication of the client (lines 229-245).
\* connectOk is the outcome of mongo.Connect, which the environment decides.
ConnectClient(opts, calls, connectOk) ==
    LET calls2 == Append(calls, "mongo.Connect")
    IN  IF ~connectOk
        THEN Response(<<TitleConnect>>, calls2, Some(opts.uri), Some(opts), None)
        ELSE Response(<<>>, calls2, Some(opts.uri), Some(opts), Some(opts))

\* The whole of Configure (lines 126-245).  req.Config.Get cannot fail here:
\* the model struct matches the schema attribute for attribute.
ConfigureResult(config, connectOk) ==
    IF MissingHostOrUrl(config)
    THEN Response(<<TitleMissing>>, <<>>, None, None, None)
    ELSE IF ConflictingHostAndUrl(config)
    THEN Response(<<TitleConflict>>, <<>>, None, None, None)
    ELSE
    LET uri == BuildUri(config)
        d == proxyDialer(config.Proxy)
    IN  IF d.err
        THEN Response(<<TitleProxy>>, <<"proxyDialer">>, Some(uri), None, None)
        ELSE
        LET verify == config.InsecureSkipVerify
            withCert == config.Certificate # StrEmpty
            t == IF withCert
                 THEN getTLSConfigWithAllServerCertificates(config.Certificate, verify)
                 ELSE [err |-> FALSE, tlsConfig |-> None]
            calls1 == IF withCert
                      THEN <<"proxyDialer", "getTLSConfigWithAllServerCertificates">>
                      ELSE <<"proxyDialer">>
        IN  IF t.err
            THEN Response(<<TitleCert>>, calls1, Some(uri), None, None)
            ELSE ConnectClient(ClientOptions(config, uri, t.tlsConfig, d.dialer),
                               calls1, connectOk)

\* Configuration values the host may hand to Configure.  A null or unknown
\* attribute reads as "" / false through ValueString / ValueBool.
Urls == {StrEmpty, <<"m",":","/","/","u">>}
Hosts == {StrEmpty, <<"h">>}
Ports == {StrEmpty, <<"2","7">>}
ReplicaSets == {StrEmpty, <<"r","s">>}
Proxies == {StrEmpty,
            <<"s","o","c","k","s","5",":","/","/","p">>,
            <<"h","t","t","p",":","/","/","p">>,
            <<":","p">>,
            <<"p">>}
Certificates == {StrEmpty, <<"C">>, <<"x">>, <<"x","C","C">>}
Credentials == {[AuthDatabase |-> StrEmpty, Username |-> StrEmpty, Password |-> StrEmpty],
                [AuthDatabase |-> <<"a">>, Username |-> <<"u">>, Password |-> <<"p">>]}

Configs ==
    { [Url |-> u, Host |-> h, Port |-> p, ReplicaSet |-> rs, Proxy |-> px,
       Certificate |-> ce, AuthDatabase |-> cr.AuthDatabase,
       Username |-> cr.Username, Password |-> cr.Password,
       InsecureSkipVerify |-> isv, SSL |-> ssl, Direct |-> di, RetryWrites |-> rw] :
      u \in Urls, h \in Hosts, p \in Ports, rs \in ReplicaSets, px \in Proxies,
      ce \in Certificates, cr \in Credentials,
      isv \in BOOLEAN, ssl \in BOOLEAN, di \in BOOLEAN, rw \in BOOLEAN }

InitProvider ==
    /\ pconfig = None
    /\ presp = None
    /\ pconnect = None

\* The host calls Configure once per provider instance.
Configure ==
    /\ pconfig = None
    /\ \E config \in Configs, connectOk \in BOOLEAN :
         /\ pconfig' = Some(config)
         /\ presp' = Some(ConfigureResult(config, connectOk))
         /\ pconnect' = Some(connectOk)
    /\ UNCHANGED <<cvars, rvars>>

-----------------------------------------------------------------------------
(* Properties of Configure, stated on the state a Configure run leaves.    *)

Configured == pconfig # None
Cfg == pconfig[1]
Resp == presp[1]

UrlSet == Cfg.Url # StrEmpty
HostSet == Cfg.Host # StrEmpty
ConnectAttempts == Cardinality({i \in 1..Len(Resp.calls) : Resp.calls[i] = "mongo.Connect"})
Published == Resp.ResourceData # None /\ Resp.DataSourceData # None
NothingPublished == Resp.ResourceData = None /\ Resp.DataSourceData = None

\* C1: when both url and host are set Configure reports exactly "Conflicting
\* host and url", when neither is set exactly "Missing host or url"; in both
\* cases it has made no proxy, TLS or connection call and publishes no client.
C1_InvalidConfigRejectedEarly ==
    Configured =>
        /\ (UrlSet /\ HostSet) => Resp.Diagnostics = <<TitleConflict>>
        /\ (~UrlSet /\ ~HostSet) => Resp.Diagnostics = <<TitleMissing>>
        /\ (UrlSet = HostSet) => Resp.calls = <<>> /\ NothingPublished

C1_Witness ==
    /\ Configured /\ UrlSet /\ HostSet
    /\ Cfg.Proxy # StrEmpty /\ Cfg.Certificate # StrEmpty
    /\ Resp.Diagnostics = <<TitleConflict>>

\* C2: with exactly one of url and host set, Configure reports no
\* configuration error: it succeeds, or fails with exactly one of the proxy,
\* certificate and connection errors.
C2_ValidConfigNoConfigurationError ==
    (Configured /\ UrlSet # HostSet) =>
        /\ \A i \in 1..Len(Resp.Diagnostics) :
               Resp.Diagnostics[i] \notin {TitleMissing, TitleConflict}
        /\ Resp.Diagnostics \in {<<>>, <<TitleProxy>>, <<TitleCert>>, <<TitleConnect>>}

C2_Witness ==
    /\ Configured /\ HostSet /\ ~UrlSet
    /\ Resp.Diagnostics = <<>> /\ Published

\* The arguments the specification lists, in its order.
ExpectedArgs(config) ==
    <<StrRetryWritesEq \o (IF config.RetryWrites THEN StrTrue ELSE StrFalse)>>
    \o (IF config.SSL THEN <<StrSslTrue>> ELSE <<>>)
    \o (IF config.ReplicaSet # StrEmpty /\ ~config.Direct
        THEN <<StrReplicaSetEq \o config.ReplicaSet>> ELSE <<>>)
    \o (IF config.Direct THEN <<StrConnectEq \o StrDirect>> ELSE <<>>)

\* "/?" before the first argument, "&" before each later one.
RECURSIVE JoinTail(_, _)
JoinTail(args, i) ==
    IF i > Len(args) THEN StrEmpty
    ELSE (IF i = 1 THEN StrSlashQuestion ELSE StrAmp) \o args[i] \o JoinTail(args, i + 1)

\* C3: when url is absent, the URI Configure builds is "mongodb://" host ":"
\* port and then retrywrites=<bool>, ssl=true iff ssl, replicaSet=<value> iff
\* replica_set is non-empty and direct is false, connect=direct iff direct,
\* the first after "/?" and each later one after "&".
C3_AssembledUri ==
    (Configured /\ ~UrlSet /\ Resp.uri # None) =>
        Resp.uri[1] = StrMongodbScheme \o Cfg.Host \o StrColon \o Cfg.Port
                      \o JoinTail(ExpectedArgs(Cfg), 1)

C3_Witness ==
    /\ Configured /\ ~UrlSet /\ Resp.uri # None
    /\ Cfg.SSL /\ Cfg.ReplicaSet # StrEmpty /\ ~Cfg.Direct /\ Cfg.Port # StrEmpty
    /\ "mongo.Connect" \in {Resp.calls[i] : i \in 1..Len(Resp.calls)}

\* The arguments of a URI's query: what follows the first "?", split on "&".
QueryArgs(uri) ==
    IF IndexesOf(uri, "?") = {} THEN <<>>
    ELSE Split(SubSeq(uri, Min(IndexesOf(uri, "?")) + 1, Len(uri)), "&")

HasReplicaSetArg(uri) ==
    \E i \in 1..Len(QueryArgs(uri)) : HasPrefix(QueryArgs(uri)[i], StrReplicaSetEq)
HasConnectDirectArg(uri) ==
    \E i \in 1..Len(QueryArgs(uri)) : QueryArgs(uri)[i] = StrConnectEq \o StrDirect

\* C4: an assembled URI never carries both a replicaSet= argument and
\* connect=direct; with replica_set non-empty and direct true it carries
\* connect=direct and no replicaSet= argument.  (The arguments are read back
\* from the URI; the configuration values of the model hold no "?" or "&".)
C4_ReplicaSetDirectExclusive ==
    (Configured /\ ~UrlSet /\ Resp.uri # None) =>
        /\ ~(HasReplicaSetArg(Resp.uri[1]) /\ HasConnectDirectArg(Resp.uri[1]))
        /\ (Cfg.ReplicaSet # StrEmpty /\ Cfg.Direct) =>
               HasConnectDirectArg(Resp.uri[1]) /\ ~HasReplicaSetArg(Resp.uri[1])

C4_Witness ==
    /\ Configured /\ ~UrlSet /\ Resp.uri # None
    /\ Cfg.ReplicaSet # StrEmpty /\ Cfg.Direct
    /\ HasConnectDirectArg(Resp.uri[1])

\* A proxy string that url.Parse rejects or whose scheme proxy.FromURL does
\* not support.
BadProxy(px) ==
    px # StrEmpty /\ (urlParse(px).err \/ urlParse(px).scheme \notin {StrSocks5, StrSocks5h})

\* C5: past validation, an empty proxy gives no dialer and no proxy error, and
\* the run goes on: it reaches mongo.Connect unless the certificate fails to
\* parse; an unparseable proxy URL or an unsupported scheme gives exactly
\* "Unable to create proxy dialer", no connection attempt and no client.
C5_ProxyResolution ==
    (Configured /\ UrlSet # HostSet) =>
        /\ Cfg.Proxy = StrEmpty =>
               /\ Resp.Diagnostics # <<TitleProxy>>
               /\ Resp.Diagnostics # <<TitleCert>> =>
                      ConnectAttempts = 1 /\ Resp.opts[1].dialer = None
        /\ BadProxy(Cfg.Proxy) =>
               /\ Resp.Diagnostics = <<TitleProxy>>
               /\ ConnectAttempts = 0
               /\ NothingPublished

C5_Witness ==
    /\ Configured /\ UrlSet # HostSet
    /\ Cfg.Proxy = StrEmpty
    /\ ConnectAttempts = 1 /\ Published

C5_WitnessBadProxy ==
    /\ Configured /\ UrlSet # HostSet
    /\ BadProxy(Cfg.Proxy) /\ urlParse(Cfg.Proxy).err
    /\ Resp.Diagnostics = <<TitleProxy>>

\* C6: a Configure run makes no connection attempt when validation, proxy
\* resolution or certificate parsing failed and exactly one otherwise; a
\* failed attempt gives "Unable to Create MongoDB Client"; the client is
\* published to ResourceData and DataSourceData iff that attempt succeeded.
C6_SingleConnectionAttempt ==
    Configured =>
        LET early == /\ Len(Resp.Diagnostics) = 1
                     /\ Resp.Diagnostics[1] \in
                            {TitleMissing, TitleConflict, TitleProxy, TitleCert}
        IN  /\ ConnectAttempts = IF early THEN 0 ELSE 1
            /\ early <=> \/ UrlSet = HostSet
                         \/ BadProxy(Cfg.Proxy)
                         \/ Cfg.Certificate # StrEmpty /\ ~AppendCertsFromPEM(Cfg.Certificate)
            /\ (ConnectAttempts = 1 /\ ~pconnect[1]) => Resp.Diagnostics = <<TitleConnect>>
            /\ Published <=> (ConnectAttempts = 1 /\ pconnect[1])
            /\ Published \/ NothingPublished
            /\ Published => Resp.ResourceData = Resp.DataSourceData /\ Resp.Diagnostics = <<>>

C6_Witness ==
    /\ Configured /\ ConnectAttempts = 1 /\ ~pconnect[1]
    /\ Resp.Diagnostics = <<TitleConnect>> /\ NothingPublished

-----------------------------------------------------------------------------
(* Identifier codec: collection_resource.go                                *)

\* An Identifier with the two names the other way round.
CollectionIdOf_Reversed(databaseName, collectionName) ==
    collectionName \o StrDot \o databaseName

\* fmt.Sprintf("%s.%s", databaseName, collectionName) (lines 300 and 349).
CollectionIdOf(databaseName, collectionName) ==
    databaseName \o StrDot \o collectionName

\* parseCollectionId that accepts every id of two segments or more and keeps
\* the first two.
parseCollectionId_AtLeastTwo(id) ==
    LET parts == Split(id, ".")
    IN  IF Len(parts) < 2
        THEN [err |-> TRUE, id |-> None]
        ELSE [err |-> FALSE,
              id |-> Some([database |-> parts[1], collection |-> parts[2]])]

\* parseCollectionId that returns the two segments in the wrong order.
parseCollectionId_Swapped(id) ==
    LET parts == Split(id, ".")
    IN  IF Len(parts) # 2
        THEN [err |-> TRUE, id |-> None]
        ELSE [err |-> FALSE,
              id |-> Some([database |-> parts[2], collection |-> parts[1]])]

parseCollectionId(id) ==
    LET parts == Split(id, ".")
    IN  IF Len(parts) # 2
        THEN [err |-> TRUE, id |-> None]
        ELSE [err |-> FALSE,
              id |-> Some([database |-> parts[1], collection |-> parts[2]])]

\* utils.go: parseIndexId.
parseIndexId(path) ==
    LET splitPath == Split(path, ".")
    IN  IF Len(splitPath) # 3
        THEN [err |-> TRUE, id |-> None]
        ELSE [err |-> FALSE,
              id |-> Some([database |-> splitPath[1], collection |-> splitPath[2],
                           indexName |-> splitPath[3]])]

\* The names the codec is exercised on: every string of at most MaxNameLen
\* characters over a small alphabet that contains the separator.
MaxNameLen == 2
NameChars == {"a", "b", "."}
NameStrings == UNION {[1..n -> NameChars] : n \in 0..MaxNameLen}

InitCodec ==
    \E a \in NameStrings, b \in NameStrings :
        codec = [a |-> a, b |-> b, id |-> None, parsed |-> None, raw |-> None]

\* Collection Create / Read derive the Identifier from the two names.
CodecEncode ==
    /\ codec.id = None
    /\ codec' = [codec EXCEPT !.id = Some(CollectionIdOf(codec.a, codec.b))]
    /\ UNCHANGED <<pvars, rvars, conv>>

\* ImportState decodes an Identifier.
CodecDecode ==
    /\ codec.id # None
    /\ codec.parsed = None
    /\ codec' = [codec EXCEPT !.parsed = Some(parseCollectionId(codec.id[1]))]
    /\ UNCHANGED <<pvars, rvars, conv>>

\* Both parsers called with an id that no encoder produced: any string of at
\* most 2 * MaxNameLen characters, here the two drawn strings joined as they
\* are.
CodecParseRaw ==
    /\ codec.raw = None
    /\ LET id == codec.a \o codec.b
       IN  codec' = [codec EXCEPT !.raw = Some([id |-> id,
                                                collection |-> parseCollectionId(id),
                                                index |-> parseIndexId(id)])]
    /\ UNCHANGED <<pvars, rvars, conv>>

NextCodec == CodecEncode \/ CodecDecode \/ CodecParseRaw


\* C10: for non-empty a and b without ".", parseCollectionId of the
\* Identifier a "." b succeeds and returns database a and collection b.
C10_IdentifierRoundTrip ==
    (/\ codec.parsed # None
     /\ codec.a # StrEmpty /\ codec.b # StrEmpty
     /\ NoDot(codec.a) /\ NoDot(codec.b)) =>
        /\ ~codec.parsed[1].err
        /\ codec.parsed[1].id = Some([database |-> codec.a, collection |-> codec.b])

C10_Witness ==
    /\ codec.parsed # None
    /\ Len(codec.a) = 2 /\ Len(codec.b) = 1 /\ NoDot(codec.a) /\ NoDot(codec.b)
    /\ codec.a[1] # codec.b[1]
    /\ ~codec.parsed[1].err

\* The number of segments of an id: one more than it has separators.
Segments(id) == Cardinality(IndexesOf(id, ".")) + 1

\* C11: parseCollectionId fails, with an error and a nil result, exactly when
\* the id does not have 2 segments, and parseIndexId exactly when it does not
\* have 3; when the count matches, the result holds the segments in order and
\* unchanged: joined with "." they give the id back and none contains ".".
C11_DecodeFailsExactlyOnSegmentCount ==
    codec.raw # None =>
        LET id == codec.raw[1].id
            c == codec.raw[1].collection
            x == codec.raw[1].index
        IN  /\ c.err <=> Segments(id) # 2
            /\ c.err <=> c.id = None
            /\ ~c.err =>
                   /\ c.id[1].database \o StrDot \o c.id[1].collection = id
                   /\ NoDot(c.id[1].database) /\ NoDot(c.id[1].collection)
            /\ x.err <=> Segments(id) # 3
            /\ x.err <=> x.id = None
            /\ ~x.err =>
                   /\ x.id[1].database \o StrDot \o x.id[1].collection
                          \o StrDot \o x.id[1].indexName = id
                   /\ NoDot(x.id[1].database) /\ NoDot(x.id[1].collection)
                   /\ NoDot(x.id[1].indexName)

\* An id of three segments: the collection parser refuses it, the index
\* parser returns its segments.
C11_Witness ==
    /\ codec.raw # None
    /\ Segments(codec.raw[1].id) = 3
    /\ codec.raw[1].collection.err /\ codec.raw[1].collection.id = None
    /\ ~codec.raw[1].index.err
    /\ codec.raw[1].index.id[1].database # codec.raw[1].index.id[1].indexName

-----------------------------------------------------------------------------
(* Type/value translators: utils.go                                        *)
(* A Go value held in an interface{} is its dynamic type with its value:   *)
(* the type switch of the code tells int32 from int and int64.             *)

StrAsc == <<"a","s","c">>
StrDesc == <<"d","e","s","c">>

GoInt(type, n) == [type |-> type, int |-> n, str |-> StrEmpty]
GoString(s) == [type |-> "string", int |-> 0, str |-> s]

\* convertToMongoIndexType: the untyped constants 1 and -1 returned as
\* interface{} have the dynamic type int.
convertToMongoIndexType(indexType) ==
    IF indexType = StrAsc THEN GoInt("int", 1)
    ELSE IF indexType = StrDesc THEN GoInt("int", 0 - 1)
    ELSE GoString(indexType)

ErrIntValue == "if typeIndex is int, it MUST have value 1 ou -1"
ErrIndexType == "typeIndex MUST be int32 or string"

\* convertToTfIndexType: the assertion indexType.(int32) holds for the
\* dynamic type int32 only.
convertToTfIndexType(indexType) ==
    IF indexType.type = "int32"
    THEN IF indexType.int = 1 THEN [str |-> StrAsc, err |-> None]
         ELSE IF indexType.int = 0 - 1 THEN [str |-> StrDesc, err |-> None]
         ELSE [str |-> StrEmpty, err |-> Some(ErrIntValue)]
    ELSE IF indexType.type = "string"
    THEN [str |-> indexType.str, err |-> None]
    ELSE [str |-> StrEmpty, err |-> Some(ErrIndexType)]

\* options.Collation{}: every field at its zero value.
ZeroCollation ==
    [Locale |-> StrEmpty, CaseLevel |-> FALSE, CaseFirst |-> StrEmpty, Strength |-> 0,
     NumericOrdering |-> FALSE, Alternate |-> StrEmpty, MaxVariable |-> StrEmpty,
     Normalization |-> FALSE, Backwards |-> FALSE]

\* A toMongoCollation that answers a nil bag with an empty collation.
toMongoCollation_EmptyForNil(co) ==
    IF co = None
    THEN Some(ZeroCollation)
    ELSE Some([f \in DOMAIN ZeroCollation |->
                  IF f = "Locale" THEN co[1].Locale
                  ELSE IF co[1][f] # None THEN co[1][f][1] ELSE ZeroCollation[f]])

\* collation.toMongoCollation: co is the *collation (None: nil), each of its
\* optional fields a pointer (None: nil).
toMongoCollation(co) ==
    IF co = None
    THEN None
    ELSE LET c == co[1]
             res0 == [ZeroCollation EXCEPT !.Locale = c.Locale]
             res1 == IF c.CaseLevel # None
                     THEN [res0 EXCEPT !.CaseLevel = c.CaseLevel[1]] ELSE res0
             res2 == IF c.CaseFirst # None
                     THEN [res1 EXCEPT !.CaseFirst = c.CaseFirst[1]] ELSE res1
             res3 == IF c.Strength # None
                     THEN [res2 EXCEPT !.Strength = c.Strength[1]] ELSE res2
             res4 == IF c.NumericOrdering # None
                     THEN [res3 EXCEPT !.NumericOrdering = c.NumericOrdering[1]] ELSE res3
             res5 == IF c.Alternate # None
                     THEN [res4 EXCEPT !.Alternate = c.Alternate[1]] ELSE res4
             res6 == IF c.MaxVariable # None
                     THEN [res5 EXCEPT !.MaxVariable = c.MaxVariable[1]] ELSE res5
             res7 == IF c.Normalization # None
                     THEN [res6 EXCEPT !.Normalization = c.Normalization[1]] ELSE res6
             res8 == IF c.Backwards # None
                     THEN [res7 EXCEPT !.Backwards = c.Backwards[1]] ELSE res7
         IN  Some(res8)

\* The collation bags: nil, and every bag whose optional fields are each
\* nil or set, a boolean to either value.
OptBool == {None, Some(TRUE), Some(FALSE)}
OptWord(w) == {None, Some(w)}
Collations ==
    {None} \cup
    {Some(c) : c \in
        [Locale : {StrEmpty, <<"e","n">>},
         CaseLevel : OptBool,
         CaseFirst : OptWord(<<"u","p","p","e","r">>),
         Strength : {None, Some(2)},
         NumericOrdering : OptBool,
         Alternate : OptWord(<<"s","h","i","f","t","e","d">>),
         MaxVariable : OptWord(<<"p","u","n","c","t">>),
         Normalization : OptBool,
         Backwards : OptBool]}

InitConvCollation ==
    \E co \in Collations : conv = [kind |-> "collation", bag |-> co, out |-> None]

\* The index resource translates its collation block for the driver.
ConvertCollation ==
    /\ conv # None /\ conv.kind = "collation" /\ conv.out = None
    /\ conv' = [conv EXCEPT !.out = Some(toMongoCollation(conv.bag))]
    /\ UNCHANGED <<pvars, rvars, codec>>

\* The inputs of the translators: index types as declared, and values as a
\* caller can hand them over: integers of each width, strings, and values
\* that are neither.
IndexTypes ==
    {StrAsc, StrDesc, StrEmpty, <<"t","e","x","t">>, <<"1">>, <<"-","1">>,
     <<"A","S","C">>, <<"2","d">>}
IntTypes == {"int", "int32", "int64"}
IntValues == (0 - 2)..2
GoValues ==
    {GoInt(t, n) : t \in IntTypes, n \in IntValues}
        \cup {GoString(s) : s \in IndexTypes}
        \cup {GoInt("float64", 1), GoInt("bool", 1), GoInt("nil", 0)}

InitConvIndexType ==
    \E s \in IndexTypes, v \in GoValues :
        conv = [kind |-> "indexType", declared |-> s, returned |-> v,
                toMongo |-> None, toTf |-> None, back |-> None]

\* The index resource translates a declared index type for the driver ...
ConvertToMongo ==
    /\ conv # None /\ conv.kind = "indexType" /\ conv.toMongo = None
    /\ conv' = [conv EXCEPT !.toMongo = Some(convertToMongoIndexType(conv.declared))]
    /\ UNCHANGED <<pvars, rvars, codec>>

\* ... translates a value back ...
ConvertToTf ==
    /\ conv # None /\ conv.kind = "indexType" /\ conv.toTf = None
    /\ conv' = [conv EXCEPT !.toTf = Some(convertToTfIndexType(conv.returned))]
    /\ UNCHANGED <<pvars, rvars, codec>>

\* ... and translates back what it translated.
ConvertBack ==
    /\ conv # None /\ conv.kind = "indexType"
    /\ conv.toMongo # None /\ conv.back = None
    /\ conv' = [conv EXCEPT !.back = Some(convertToTfIndexType(conv.toMongo[1]))]
    /\ UNCHANGED <<pvars, rvars, codec>>

-----------------------------------------------------------------------------
(* The remote MongoDB store, as the driver calls of the resources see it.  *)
(* remote is the set of collections, each [db, coll, validator]; a         *)
(* database exists on the server exactly while it holds a collection.      *)
(* fail is a failure the environment decides (network, cancellation,       *)
(* authorisation).                                                         *)

StrMarker == <<"_","t","e","r","r","a","f","o","r","m","_","c","r","e","a","t","e","d">>

ValidDbName(n) == n # StrEmpty /\ NoDot(n)
ValidCollName(n) == n # StrEmpty

CollectionsOf(store, db) == {x \in store : x.db = db}
Exists(store, db, coll) == \E x \in store : x.db = db /\ x.coll = coll

\* Database.CreateCollection: the server refuses an invalid namespace and a
\* collection that exists already.
RemoteCreateCollection(store, db, coll, validator, fail) ==
    IF fail \/ ~ValidDbName(db) \/ ~ValidCollName(coll) \/ Exists(store, db, coll)
    THEN [err |-> TRUE, store |-> store]
    ELSE [err |-> FALSE,
          store |-> store \cup {[db |-> db, coll |-> coll, validator |-> validator]}]

\* A Drop that passes the server's NamespaceNotFound on to the caller.
RemoteDropCollection_NotFoundIsError(store, db, coll, fail) ==
    IF fail \/ ~Exists(store, db, coll)
    THEN [err |-> TRUE, store |-> store]
    ELSE [err |-> FALSE, store |-> {x \in store : ~(x.db = db /\ x.coll = coll)}]

\* Collection.Drop: the driver swallows the server's NamespaceNotFound, so
\* dropping an absent collection is no error.
RemoteDropCollection(store, db, coll, fail) ==
    IF fail
    THEN [err |-> TRUE, store |-> store]
    ELSE [err |-> FALSE, store |-> {x \in store : ~(x.db = db /\ x.coll = coll)}]

\* Database.Drop.
RemoteDropDatabase(store, db, fail) ==
    IF fail
    THEN [err |-> TRUE, store |-> store]
    ELSE [err |-> FALSE, store |-> {x \in store : x.db # db}]

\* Client.ListDatabaseNames with the filter {"name": name}.
RemoteListDatabaseNames(store, name, fail) ==
    IF fail
    THEN [err |-> TRUE, names |-> {}]
    ELSE [err |-> FALSE, names |-> {x.db : x \in CollectionsOf(store, name)}]

\* Database.ListCollectionNames with the filter {"name": name}.
RemoteListCollectionNames(store, db, name, fail) ==
    IF fail
    THEN [err |-> TRUE, names |-> {}]
    ELSE [err |-> FALSE,
          names |-> {x.coll : x \in {y \in CollectionsOf(store, db) : y.coll = name}}]

-----------------------------------------------------------------------------
(* The resource handlers.  Each is the whole handler as a function of the  *)
(* request and the store; the result holds the diagnostics (titles), the   *)
(* remote calls issued in order, the state written to the response (None:  *)
(* resp.State untouched) and the store afterwards.                         *)

TitleUpdates == "Updates not supported"
TitleCreateDb == "Unable to create database"
TitleCleanup == "Unable to clean up dummy collection"
TitleListDbs == "Unable to list databases"
TitleDbNotFound == "Database not found"
TitleDropDb == "Unable to drop database"
TitleCreateColl == "Unable to create collection"
TitleListColls == "Unable to list collections"
TitleCollNotFound == "Collection not found"
TitleDropColl == "Unable to drop collection"
TitleInvalidId == "Invalid id format. Should be <database>.<collection>."

Result(diags, calls, state, store) ==
    [diags |-> diags, calls |-> calls, state |-> state, store |-> store]

\* databaseResource.Create up to and including CreateCollection; state is
\* not written here: on success the handler goes on to the drop.
DatabaseCreateMarker(plan, store, fail) ==
    LET c == RemoteCreateCollection(store, plan.Name, StrMarker, None, fail)
    IN  IF c.err
        THEN Result(<<TitleCreateDb>>, <<"CreateCollection">>, None, c.store)
        ELSE Result(<<>>, <<"CreateCollection">>, None, c.store)

\* A Create that skips the drop and leaves the marker collection behind.
DatabaseCreateDrop_KeepsMarker(plan, store, fail) ==
    IF fail
    THEN Result(<<TitleCleanup>>, <<"CreateCollection", "Drop">>, None, store)
    ELSE Result(<<>>, <<"CreateCollection", "Drop">>,
                Some([plan EXCEPT !.Id = Some(plan.Name)]), store)

\* A Create that rolls back on a failed drop by dropping the whole database.
DatabaseCreateDrop_RollsBack(plan, store, fail) ==
    LET d == RemoteDropCollection(store, plan.Name, StrMarker, fail)
    IN  IF d.err
        THEN Result(<<TitleCleanup>>, <<"CreateCollection", "Drop">>, None,
                    RemoteDropDatabase(store, plan.Name, FALSE).store)
        ELSE Result(<<>>, <<"CreateCollection", "Drop">>,
                    Some([plan EXCEPT !.Id = Some(plan.Name)]), d.store)

\* databaseResource.Create from the drop of the marker to the end.
DatabaseCreateDrop(plan, store, fail) ==
    LET d == RemoteDropCollection(store, plan.Name, StrMarker, fail)
    IN  IF d.err
        THEN Result(<<TitleCleanup>>, <<"CreateCollection", "Drop">>, None, d.store)
        ELSE Result(<<>>, <<"CreateCollection", "Drop">>,
                    Some([plan EXCEPT !.Id = Some(plan.Name)]), d.store)

\* A Read that takes a failed listing as a warning and writes the state.
DatabaseRead_IgnoresListError(state, store, fail) ==
    LET l == RemoteListDatabaseNames(store, state.Name, fail)
    IN  IF ~l.err /\ Cardinality(l.names) = 0
        THEN Result(<<TitleDbNotFound>>, <<"ListDatabaseNames">>, None, store)
        ELSE Result(<<>>, <<"ListDatabaseNames">>,
                    Some([state EXCEPT !.Id = Some(state.Name)]), store)

DatabaseRead(state, store, fail) ==
    LET l == RemoteListDatabaseNames(store, state.Name, fail)
    IN  IF l.err
        THEN Result(<<TitleListDbs>>, <<"ListDatabaseNames">>, None, store)
        ELSE IF Cardinality(l.names) = 0
        THEN Result(<<TitleDbNotFound>>, <<"ListDatabaseNames">>, None, store)
        ELSE Result(<<>>, <<"ListDatabaseNames">>,
                    Some([state EXCEPT !.Id = Some(state.Name)]), store)

\* An Update that writes the plan to the state.
DatabaseUpdate_Accepts(plan, store) ==
    Result(<<>>, <<>>, Some([plan EXCEPT !.Id = Some(plan.Name)]), store)

DatabaseUpdate(plan, store) ==
    Result(<<TitleUpdates>>, <<>>, None, store)

DatabaseDelete(state, store, fail) ==
    LET d == RemoteDropDatabase(store, state.Name, fail)
    IN  IF d.err
        THEN Result(<<TitleDropDb>>, <<"Database.Drop">>, None, d.store)
        ELSE Result(<<>>, <<"Database.Drop">>, None, d.store)

\* ImportState sets the attribute "name" to the id as given.
DatabaseImportState(id, store) ==
    Result(<<>>, <<>>, Some([Name |-> id, Id |-> None]), store)

\* A Create that always sets a validator on the call: the empty document when
\* the plan has no validation block.
CollectionCreate_AlwaysSetsValidator(plan, store, fail) ==
    LET validator == IF plan.Validation # None
                     THEN Some(plan.Validation[1].Validator)
                     ELSE Some(StrEmpty)
        c == RemoteCreateCollection(store, plan.Database, plan.Name, validator, fail)
    IN  IF c.err
        THEN Result(<<TitleCreateColl>>, <<"CreateCollection">>, None, c.store)
        ELSE Result(<<>>, <<"CreateCollection">>,
                    Some([plan EXCEPT !.Id = Some(CollectionIdOf(plan.Database, plan.Name))]),
                    c.store)

CollectionCreate(plan, store, fail) ==
    LET validator == IF plan.Validation # None
                     THEN Some(plan.Validation[1].Validator)
                     ELSE None
        c == RemoteCreateCollection(store, plan.Database, plan.Name, validator, fail)
    IN  IF c.err
        THEN Result(<<TitleCreateColl>>, <<"CreateCollection">>, None, c.store)
        ELSE Result(<<>>, <<"CreateCollection">>,
                    Some([plan EXCEPT !.Id = Some(CollectionIdOf(plan.Database, plan.Name))]),
                    c.store)

\* A Read that takes a missing collection as gone: no error, no state.
CollectionRead_MissingIsGone(state, store, fail) ==
    LET l == RemoteListCollectionNames(store, state.Database, state.Name, fail)
    IN  IF l.err
        THEN Result(<<TitleListColls>>, <<"ListCollectionNames">>, None, store)
        ELSE IF Cardinality(l.names) = 0
        THEN Result(<<>>, <<"ListCollectionNames">>, None, store)
        ELSE Result(<<>>, <<"ListCollectionNames">>,
                    Some([state EXCEPT !.Id = Some(CollectionIdOf(state.Database, state.Name))]),
                    store)

\* A Read that refreshes the validation block from the collection it finds.
CollectionRead_ObservesValidator(state, store, fail) ==
    LET l == RemoteListCollectionNames(store, state.Database, state.Name, fail)
        found == CHOOSE x \in store : x.db = state.Database /\ x.coll = state.Name
    IN  IF l.err
        THEN Result(<<TitleListColls>>, <<"ListCollectionNames">>, None, store)
        ELSE IF Cardinality(l.names) = 0
        THEN Result(<<TitleCollNotFound>>, <<"ListCollectionNames">>, None, store)
        ELSE Result(<<>>, <<"ListCollectionNames">>,
                    Some([state EXCEPT
                            !.Id = Some(CollectionIdOf(state.Database, state.Name)),
                            !.Validation = IF found.validator = None THEN None
                                           ELSE Some([Validator |-> found.validator[1]])]),
                    store)

CollectionRead(state, store, fail) ==
    LET l == RemoteListCollectionNames(store, state.Database, state.Name, fail)
    IN  IF l.err
        THEN Result(<<TitleListColls>>, <<"ListCollectionNames">>, None, store)
        ELSE IF Cardinality(l.names) = 0
        THEN Result(<<TitleCollNotFound>>, <<"ListCollectionNames">>, None, store)
        ELSE Result(<<>>, <<"ListCollectionNames">>,
                    Some([state EXCEPT !.Id = Some(CollectionIdOf(state.Database, state.Name))]),
                    store)

CollectionUpdate(plan, store) ==
    Result(<<TitleUpdates>>, <<>>, None, store)

\* A Delete that drops the whole database of the collection.
CollectionDelete_DropsDatabase(state, store, fail) ==
    LET d == RemoteDropDatabase(store, state.Database, fail)
    IN  IF d.err
        THEN Result(<<TitleDropColl>>, <<"Collection.Drop">>, None, d.store)
        ELSE Result(<<>>, <<"Collection.Drop">>, None, d.store)

\* A Delete that issues the drop a second time when it failed.
CollectionDelete_Retries(state, store, fail) ==
    LET d == RemoteDropCollection(store, state.Database, state.Name, fail)
    IN  IF d.err
        THEN Result(<<TitleDropColl>>, <<"Collection.Drop", "Collection.Drop">>, None, d.store)
        ELSE Result(<<>>, <<"Collection.Drop">>, None, d.store)

CollectionDelete(state, store, fail) ==
    LET d == RemoteDropCollection(store, state.Database, state.Name, fail)
    IN  IF d.err
        THEN Result(<<TitleDropColl>>, <<"Collection.Drop">>, None, d.store)
        ELSE Result(<<>>, <<"Collection.Drop">>, None, d.store)

CollectionImportState(id, store) ==
    LET parsed == parseCollectionId(id)
    IN  IF parsed.err
        THEN Result(<<TitleInvalidId>>, <<>>, None, store)
        ELSE Result(<<>>, <<>>,
                    Some([Database |-> parsed.id[1].database,
                          Name |-> parsed.id[1].collection,
                          Validation |-> None, Id |-> None]),
                    store)

-----------------------------------------------------------------------------
(* The Terraform host driving the resources.  It holds one state per       *)
(* resource instance, serialises the calls for one instance and lets the   *)
(* calls for different instances interleave.                               *)

Res == {"d1", "c1"}
Kind(r) == IF r = "d1" THEN "database" ELSE "collection"

DbNames == {<<"a">>, <<"b">>}
CollNames == {<<"c">>, StrMarker}
Validations == {None, Some([Validator |-> <<"v">>]), Some([Validator |-> <<"w">>])}

\* The plans / configurations of an instance: the id is unknown (None) until
\* Create computes it.
Plans(kind) ==
    IF kind = "database"
    THEN {[Name |-> n, Id |-> None] : n \in DbNames}
    ELSE {[Database |-> d, Name |-> n, Validation |-> v, Id |-> None] :
            d \in DbNames, n \in CollNames, v \in Validations}

ImportIds == {<<"a">>, <<"a",".","c">>, <<"b",".","c">>, <<"a",".","c",".","c">>}

\* Schema: the attributes a configuration sets, and those among them that
\* carry the plan modifier RequiresReplace.
ConfigAttrs(kind) ==
    IF kind = "database" THEN {"name"} ELSE {"database", "name", "validation"}

RequiresReplace_NotOnDatabaseName(kind) ==
    IF kind = "database" THEN {} ELSE {"database", "name"}

RequiresReplace(kind) ==
    IF kind = "database" THEN {"name"} ELSE {"database", "name"}

AttrValue(st, attr) ==
    CASE attr = "name" -> st.Name
      [] attr = "database" -> st.Database
      [] attr = "validation" -> st.Validation

\* The host's plan for a changed configuration: a difference in an attribute
\* marked RequiresReplace makes it destroy and re-create, any other
\* difference makes it call Update.
Changed(kind, prior, config) ==
    {attr \in ConfigAttrs(kind) : AttrValue(prior, attr) # AttrValue(config, attr)}
NeedsReplace(kind, prior, config) ==
    Changed(kind, prior, config) \cap RequiresReplace(kind) # {}

HandlerCreate(kind, plan, store, fail) ==
    IF kind = "database"
    THEN DatabaseCreateMarker(plan, store, fail)
    ELSE CollectionCreate(plan, store, fail)
HandlerRead(kind, state, store, fail) ==
    IF kind = "database"
    THEN DatabaseRead(state, store, fail)
    ELSE CollectionRead(state, store, fail)
HandlerUpdate(kind, plan, store) ==
    IF kind = "database" THEN DatabaseUpdate(plan, store) ELSE CollectionUpdate(plan, store)
HandlerDelete(kind, state, store, fail) ==
    IF kind = "database"
    THEN DatabaseDelete(state, store, fail)
    ELSE CollectionDelete(state, store, fail)
HandlerImportState(kind, id, store) ==
    IF kind = "database" THEN DatabaseImportState(id, store) ELSE CollectionImportState(id, store)

\* The record kept of a handler invocation.  done is FALSE only for a
\* Database Create that has issued its first remote call and not its second;
\* fail is what the environment decided for the invocation's latest remote
\* call (FALSE for a handler that issues none), before the store the handler
\* was called on.
Invocation(r, host, handler, prior, req, res, done, fail) ==
    Some([res |-> r, host |-> host, handler |-> handler, prior |-> prior,
          req |-> req, diags |-> res.diags, calls |-> res.calls,
          wrote |-> res.state, done |-> done, fail |-> fail, before |-> remote])

Idle(r) == inflight[r] = None
Tracked(r) == tf[r] # None /\ tf[r][1].Id # None

\* apply: Create for an instance without state (the second half of a replace
\* uses the pending plan).  A Database Create stops after its first remote
\* call when that call succeeded.
ApplyCreateOf(r, plans) ==
    /\ Idle(r) /\ tf[r] = None
    /\ \E plan \in plans, fail \in BOOLEAN :
         LET res == HandlerCreate(Kind(r), plan, remote, fail)
             more == Kind(r) = "database" /\ res.diags = <<>>
         IN  /\ remote' = res.store
             /\ inflight' = [inflight EXCEPT ![r] = IF more THEN Some(plan) ELSE None]
             /\ tf' = [tf EXCEPT ![r] = IF res.diags = <<>> THEN res.state ELSE None]
             /\ pend' = [pend EXCEPT ![r] = None]
             /\ last' = Invocation(r, "ApplyCreate", "Create", None, Some(plan), res, ~more, fail)
    /\ UNCHANGED <<pvars, cvars>>

ApplyCreate(r) ==
    ApplyCreateOf(r, IF pend[r] # None THEN {pend[r][1]} ELSE Plans(Kind(r)))

\* The names a configuration can hold beyond the plain ones: a name with the
\* separator in it and the empty name.
AnyDbNames == {<<"a">>, <<"a", ".", "b">>, StrEmpty}
AnyCollNames == {<<"c">>, <<"c", ".", "c">>, StrEmpty}
AnyPlans(kind) ==
    IF kind = "database"
    THEN {[Name |-> n, Id |-> None] : n \in AnyDbNames}
    ELSE {[Database |-> d, Name |-> n, Validation |-> v, Id |-> None] :
            d \in AnyDbNames, n \in AnyCollNames, v \in Validations}

\* apply: Create of a configuration with any of these names.
ApplyCreateAnyName(r) ==
    pend[r] = None /\ ApplyCreateOf(r, AnyPlans(Kind(r)))

\* The rest of a Database Create: the drop of the marker and the state write.
DatabaseCreateFinish(r) ==
    /\ inflight[r] # None
    /\ \E fail \in BOOLEAN :
         LET plan == inflight[r][1]
             res == DatabaseCreateDrop(plan, remote, fail)
         IN  /\ remote' = res.store
             /\ inflight' = [inflight EXCEPT ![r] = None]
             /\ tf' = [tf EXCEPT ![r] = IF res.diags = <<>> THEN res.state ELSE None]
             /\ last' = Invocation(r, "ApplyCreate", "Create", None, Some(plan), res, TRUE, fail)
    /\ UNCHANGED <<pend, pvars, cvars>>

\* refresh: Read with the state the host holds.  The Read that completes an
\* import (state seeded, id still null) discards the seeded state on error.
Refresh(r) ==
    /\ Idle(r) /\ tf[r] # None
    /\ \E fail \in BOOLEAN :
         LET prior == tf[r][1]
             res == HandlerRead(Kind(r), prior, remote, fail)
             importing == prior.Id = None
         IN  /\ remote' = res.store
             /\ tf' = [tf EXCEPT ![r] = IF res.diags = <<>> THEN res.state
                                        ELSE IF importing THEN None ELSE tf[r]]
             /\ last' = Invocation(r, IF importing THEN "Import" ELSE "Refresh", "Read",
                                   tf[r], tf[r], res, TRUE, fail)
    /\ UNCHANGED <<inflight, pend, pvars, cvars>>

\* apply of a changed configuration that needs a replace: Delete of the
\* prior state now, Create of the new configuration next.
ApplyReplace(r) ==
    /\ Idle(r) /\ Tracked(r)
    /\ \E config \in Plans(Kind(r)), fail \in BOOLEAN :
         /\ NeedsReplace(Kind(r), tf[r][1], config)
         /\ LET res == HandlerDelete(Kind(r), tf[r][1], remote, fail)
                ok == res.diags = <<>>
            IN  /\ remote' = res.store
                /\ tf' = [tf EXCEPT ![r] = IF ok THEN None ELSE tf[r]]
                /\ pend' = [pend EXCEPT ![r] = IF ok THEN Some(config) ELSE None]
                /\ last' = Invocation(r, "ApplyChange", "Delete", tf[r], Some(config), res, TRUE, fail)
    /\ UNCHANGED <<inflight, pvars, cvars>>

\* apply of a changed configuration that needs no replace: Update.  The host
\* stores the response's state only when Update reported no error.
ApplyUpdate(r) ==
    /\ Idle(r) /\ Tracked(r)
    /\ \E config \in Plans(Kind(r)) :
         /\ Changed(Kind(r), tf[r][1], config) # {}
         /\ ~NeedsReplace(Kind(r), tf[r][1], config)
         /\ LET res == HandlerUpdate(Kind(r), config, remote)
            IN  /\ remote' = res.store
                /\ tf' = [tf EXCEPT ![r] = IF res.diags = <<>> /\ res.state # None
                                           THEN res.state ELSE tf[r]]
                /\ last' = Invocation(r, "ApplyChange", "Update", tf[r], Some(config), res, TRUE, FALSE)
    /\ UNCHANGED <<inflight, pend, pvars, cvars>>

\* destroy: Delete with the state the host holds.
Destroy(r) ==
    /\ Idle(r) /\ Tracked(r)
    /\ \E fail \in BOOLEAN :
         LET res == HandlerDelete(Kind(r), tf[r][1], remote, fail)
         IN  /\ remote' = res.store
             /\ tf' = [tf EXCEPT ![r] = IF res.diags = <<>> THEN None ELSE tf[r]]
             /\ last' = Invocation(r, "Destroy", "Delete", tf[r], tf[r], res, TRUE, fail)
    /\ UNCHANGED <<inflight, pend, pvars, cvars>>

\* import: ImportState with an external id; the seeded attributes become the
\* state that the Read of the import is called with.
Import(r) ==
    /\ Idle(r) /\ tf[r] = None /\ pend[r] = None
    /\ \E id \in ImportIds :
         LET res == HandlerImportState(Kind(r), id, remote)
         IN  /\ remote' = res.store
             /\ tf' = [tf EXCEPT ![r] = IF res.diags = <<>> THEN res.state ELSE None]
             /\ last' = Invocation(r, "Import", "ImportState", None, Some(id), res, TRUE, FALSE)
    /\ UNCHANGED <<inflight, pend, pvars, cvars>>

\* Update called outside a plan: any payload, whatever state the host holds.
DirectUpdate(r) ==
    /\ Idle(r)
    /\ \E plan \in Plans(Kind(r)) :
         LET res == HandlerUpdate(Kind(r), plan, remote)
         IN  /\ remote' = res.store
             /\ tf' = [tf EXCEPT ![r] = IF res.diags = <<>> /\ res.state # None
                                        THEN res.state ELSE tf[r]]
             /\ last' = Invocation(r, "Direct", "Update", tf[r], Some(plan), res, TRUE, FALSE)
    /\ UNCHANGED <<inflight, pend, pvars, cvars>>

NextProvider == Configure


-----------------------------------------------------------------------------
InitResourcesIdle ==
    /\ remote = {}
    /\ tf = None
    /\ inflight = None
    /\ pend = None
    /\ last = None

InitProviderOnly == InitProvider /\ codec = None /\ conv = None /\ InitResourcesIdle

SpecProvider == InitProviderOnly /\ [][NextProvider]_vars

InitCodecOnly == InitProvider /\ InitCodec /\ conv = None /\ InitResourcesIdle

SpecCodec == InitCodecOnly /\ [][NextCodec]_vars

InitConv == InitConvIndexType \/ InitConvCollation

NextConv == ConvertToMongo \/ ConvertToTf \/ ConvertBack \/ ConvertCollation

InitConvOnly == InitProvider /\ codec = None /\ InitConv /\ InitResourcesIdle

SpecConv == InitConvOnly /\ [][NextConv]_vars

\* The resources work with the client of a provider that was configured
\* successfully, here from a url.
DefaultConfig ==
    [Url |-> <<"m",":","/","/","u">>, Host |-> StrEmpty, Port |-> StrEmpty,
     ReplicaSet |-> StrEmpty, Proxy |-> StrEmpty, Certificate |-> StrEmpty,
     AuthDatabase |-> StrEmpty, Username |-> StrEmpty, Password |-> StrEmpty,
     InsecureSkipVerify |-> FALSE, SSL |-> FALSE, Direct |-> FALSE,
     RetryWrites |-> FALSE]

InitConfigured ==
    /\ pconfig = Some(DefaultConfig)
    /\ presp = Some(ConfigureResult(DefaultConfig, TRUE))
    /\ pconnect = Some(TRUE)

InitResources ==
    /\ remote = {}
    /\ tf = [r \in Res |-> None]
    /\ inflight = [r \in Res |-> None]
    /\ pend = [r \in Res |-> None]
    /\ last = None

Init == InitConfigured /\ codec = None /\ conv = None /\ InitResources

Next ==
    \E r \in Res :
        \/ ApplyCreate(r)
        \/ DatabaseCreateFinish(r)
        \/ Refresh(r)
        \/ ApplyReplace(r)
        \/ ApplyUpdate(r)
        \/ Destroy(r)
        \/ Import(r)

Spec == Init /\ [][Next]_vars

NextDirect == Next \/ \E r \in Res : DirectUpdate(r)

SpecDirect == Init /\ [][NextDirect]_vars

\* The resources created with any name, read, imported and destroyed.
NextNames ==
    \E r \in Res :
        \/ ApplyCreateAnyName(r)
        \/ DatabaseCreateFinish(r)
        \/ Refresh(r)
        \/ Destroy(r)
        \/ Import(r)

SpecNames == Init /\ [][NextNames]_vars

-----------------------------------------------------------------------------
(* Properties of the resources.                                            *)

Invoked == last # None
Last == last[1]
UpdateStep == \E r \in Res : ApplyUpdate(r) \/ DirectUpdate(r)

\* The identity attributes of each kind.
IdentityAttrs(kind) == IF kind = "database" THEN {"name"} ELSE {"database", "name"}
IdentityChanged(kind, prior, config) ==
    \E attr \in IdentityAttrs(kind) : AttrValue(prior, attr) # AttrValue(config, attr)

\* C7: every Update, of a database or a collection, whatever its payload and
\* the prior state, reports exactly "Updates not supported", issues no remote
\* call and writes no state; the step leaves the store and the host's states
\* as they were.
C7_UpdateAlwaysFails ==
    /\ [](Invoked /\ Last.handler = "Update" =>
            /\ Last.diags = <<TitleUpdates>>
            /\ Last.calls = <<>>
            /\ Last.wrote = None)
    /\ [][UpdateStep => remote' = remote /\ tf' = tf]_vars

C7_Witness ==
    /\ Invoked /\ Last.handler = "Update" /\ Last.host = "Direct"
    /\ Last.res = "d1" /\ Last.prior # None
    /\ Last.prior[1].Name # Last.req[1].Name
    /\ remote # {}

\* C8: once a resource exists, applying a configuration with another name
\* fails with "Updates not supported".
C8_NameChangeFailsWithUpdatesNotSupported ==
    (/\ Invoked /\ Last.host = "ApplyChange"
     /\ Last.prior[1].Name # Last.req[1].Name) =>
        \E i \in 1..Len(Last.diags) : Last.diags[i] = TitleUpdates

\* C9: a change of an identity attribute of an existing resource is applied
\* as Delete of the prior state, which leaves the old identity absent, and
\* then Create of the new configuration as the next call for the instance;
\* Update is only ever called with the identity unchanged; and the Identifier
\* in a state the host keeps holding does not change.
C9_IdentityChangeIsReplace ==
    /\ [](Invoked /\ Last.host = "ApplyChange" =>
            /\ IdentityChanged(Kind(Last.res), Last.prior[1], Last.req[1]) <=>
                   Last.handler = "Delete"
            /\ Last.handler \in {"Delete", "Update"}
            /\ (Last.handler = "Delete" /\ Last.diags = <<>>) =>
                   /\ tf[Last.res] = None
                   /\ pend[Last.res] = Last.req
                   /\ IF Kind(Last.res) = "database"
                      THEN CollectionsOf(remote, Last.prior[1].Name) = {}
                      ELSE ~Exists(remote, Last.prior[1].Database, Last.prior[1].Name))
    /\ [](Invoked /\ Last.handler = "Update" =>
            ~IdentityChanged(Kind(Last.res), Last.prior[1], Last.req[1]))
    /\ [][\A r \in Res :
            /\ pend[r] # None =>
                   \/ pend'[r] = pend[r] /\ tf'[r] = tf[r] /\ inflight'[r] = inflight[r]
                   \/ /\ Last'.res = r /\ Last'.handler = "Create"
                      /\ Last'.req = pend[r]
            /\ (Tracked(r) /\ tf'[r] # None) => tf'[r][1].Id = tf[r][1].Id]_vars

C9_Witness ==
    /\ Invoked /\ Last.host = "ApplyChange" /\ Last.handler = "Delete"
    /\ Last.res = "c1" /\ Last.diags = <<>>
    /\ pend["c1"] # None
    /\ Last.prior[1].Database # pend["c1"][1].Database
    /\ Last.prior[1].Name = pend["c1"][1].Name

\* The number of "."-separated segments an external id of each kind has.
ExpectedSegments(kind) == IF kind = "database" THEN 1 ELSE 2

\* C12: ImportState with an id that does not split on "." into the number of
\* segments of its kind (1 for a database, 2 for a collection) reports an
\* invalid-id error (for a collection the diagnostic "Invalid id format...")
\* and seeds no attribute: the host holds no state for the instance.
C12_ImportRejectsMalformedId ==
    (/\ Invoked /\ Last.handler = "ImportState"
     /\ Segments(Last.req[1]) # ExpectedSegments(Kind(Last.res))) =>
        /\ Last.diags # <<>>
        /\ Kind(Last.res) = "collection" => Last.diags = <<TitleInvalidId>>
        /\ Last.wrote = None
        /\ tf[Last.res] = None

DatabaseCreateOf(r) == Invoked /\ Last.res = r /\ Kind(r) = "database" /\ Last.handler = "Create"
WithoutMarker(store, db) == {x \in store : ~(x.db = db /\ x.coll = StrMarker)}

\* C13: Database Create for name D calls CreateCollection for the marker
\* "_terraform_created" in D first, after which the marker exists in D, and
\* only then drops it; the drop takes exactly the marker of D out of the
\* store; when both calls succeeded the state written has name D and
\* Identifier D, the host holds it, and D has no marker collection.
C13_DatabaseCreateMarkerThenDrop ==
    /\ [](\A r \in Res : DatabaseCreateOf(r) =>
            LET D == Last.req[1].Name
            IN  /\ ~Last.done =>
                       /\ Last.calls = <<"CreateCollection">> /\ Last.diags = <<>>
                       /\ Last.wrote = None /\ tf[r] = None
                       /\ [db |-> D, coll |-> StrMarker, validator |-> None] \in remote
                /\ (Last.done /\ Last.diags = <<>>) =>
                       /\ Last.calls = <<"CreateCollection", "Drop">>
                       /\ Last.wrote = Some([Name |-> D, Id |-> Some(D)])
                       /\ tf[r] = Last.wrote
                       /\ ~Exists(remote, D, StrMarker))
    /\ [][\A r \in Res :
            (DatabaseCreateFinish(r) /\ Last'.diags = <<>>) =>
                remote' = WithoutMarker(remote, inflight[r][1].Name)]_vars

\* A Create that succeeded for a database that holds another collection.
C13_Witness ==
    /\ DatabaseCreateOf("d1") /\ Last.done /\ Last.diags = <<>>
    /\ tf["d1"] = Some([Name |-> <<"a">>, Id |-> Some(<<"a">>)])
    /\ Exists(remote, <<"a">>, <<"c">>)

\* C14: after Database Create succeeded for D the database is materialised:
\* a Read for D issued then, with no Delete of D in between and no failure
\* of the listing call, finds D in the name-filtered database listing,
\* succeeds and returns Identifier D.
C14_CreatedDatabaseIsReadable ==
    \A r \in Res :
        (DatabaseCreateOf(r) /\ Last.done /\ Last.diags = <<>>) =>
            LET D == Last.req[1].Name
                rd == DatabaseRead(tf[r][1], remote, FALSE)
            IN  /\ RemoteListDatabaseNames(remote, D, FALSE).names = {D}
                /\ rd.diags = <<>>
                /\ rd.state = Some([Name |-> D, Id |-> Some(D)])

\* C15: when Database Create's CreateCollection succeeded and the drop of the
\* marker fails, Create reports exactly "Unable to clean up dummy collection"
\* and writes no state, so the host holds neither state nor Identifier for
\* the instance; the failing step changes nothing in the store (no
\* rollback): the marker collection it was to drop, and with it the
\* database, is still there.
C15_CleanupFailureNoRollback ==
    /\ [](\A r \in Res :
            (DatabaseCreateOf(r) /\ Last.done /\ Len(Last.calls) = 2 /\ Last.fail) =>
                /\ Last.diags = <<TitleCleanup>>
                /\ Last.wrote = None
                /\ tf[r] = None)
    /\ [][\A r \in Res :
            (DatabaseCreateFinish(r) /\ Last'.fail) =>
                /\ Last'.diags = <<TitleCleanup>>
                /\ remote' = remote
                /\ Exists(remote, inflight[r][1].Name, StrMarker) =>
                       /\ Exists(remote', inflight[r][1].Name, StrMarker)
                       /\ RemoteListDatabaseNames(remote', inflight[r][1].Name, FALSE).names
                              = {inflight[r][1].Name}]_vars

\* The drop failed and the marker collection is still in the database.
C15_Witness ==
    /\ DatabaseCreateOf("d1") /\ Last.done /\ Last.diags = <<TitleCleanup>>
    /\ tf["d1"] = None
    /\ Exists(remote, Last.req[1].Name, StrMarker)

CollectionCreateOf(r) ==
    Invoked /\ Last.res = r /\ Kind(r) = "collection" /\ Last.handler = "Create"

\* C16: Collection Create for (database D, name C) issues exactly one remote
\* call, CreateCollection, which on success adds exactly the collection C of
\* D to the store; on success the state written is the plan with Identifier
\* D "." C and every declared attribute as planned; on a remote failure it
\* reports exactly "Unable to create collection", writes no state and leaves
\* the store as it was.
C16_CollectionCreate ==
    /\ [](\A r \in Res : CollectionCreateOf(r) =>
            LET plan == Last.req[1]
            IN  /\ Last.calls = <<"CreateCollection">>
                /\ Last.diags = <<>> =>
                       /\ Last.wrote # None
                       /\ Last.wrote[1].Id = Some(plan.Database \o <<".">> \o plan.Name)
                       /\ Last.wrote[1].Database = plan.Database
                       /\ Last.wrote[1].Name = plan.Name
                       /\ Last.wrote[1].Validation = plan.Validation
                       /\ tf[r] = Last.wrote
                       /\ Exists(remote, plan.Database, plan.Name)
                /\ Last.diags # <<>> =>
                       /\ Last.diags = <<TitleCreateColl>>
                       /\ Last.wrote = None
                       /\ tf[r] = None)
    /\ [][\A r \in Res :
            (ApplyCreate(r) /\ Kind(r) = "collection") =>
                IF Last'.diags = <<>>
                THEN /\ ~Exists(remote, Last'.req[1].Database, Last'.req[1].Name)
                     /\ \E x \in remote' :
                           /\ x.db = Last'.req[1].Database
                           /\ x.coll = Last'.req[1].Name
                           /\ remote' = remote \cup {x}
                ELSE remote' = remote]_vars

\* A Create that succeeded for a collection with a validation block, in a
\* database that held a collection already.
C16_Witness ==
    /\ CollectionCreateOf("c1") /\ Last.diags = <<>>
    /\ Last.req[1].Validation # None
    /\ tf["c1"] # None
    /\ tf["c1"][1].Id = Some(<<"b", ".", "c">>)
    /\ Cardinality(CollectionsOf(remote, <<"b">>)) = 2

\* C17: the collection that a successful Collection Create made carries the
\* validator of the plan's validation block as declared when the block is
\* present, and no validator at all when the block is absent.
C17_ValidatorPassedUnmodified ==
    \A r \in Res :
        (CollectionCreateOf(r) /\ Last.diags = <<>>) =>
            LET plan == Last.req[1]
                made == {x \in remote : x.db = plan.Database /\ x.coll = plan.Name}
            IN  /\ Cardinality(made) = 1
                /\ \A x \in made :
                      IF plan.Validation = None
                      THEN x.validator = None
                      ELSE x.validator = <<plan.Validation[1].Validator>>

\* Both cases: a collection made without a validation block.
C17_Witness ==
    /\ CollectionCreateOf("c1") /\ Last.diags = <<>>
    /\ Last.req[1].Validation = None
    /\ \E x \in remote : x.coll = Last.req[1].Name /\ x.validator = None

\* ... and one made with the validation block {validator = "w"}.
C17_WitnessDeclared ==
    /\ CollectionCreateOf("c1") /\ Last.diags = <<>>
    /\ Last.req[1].Validation = Some([Validator |-> <<"w">>])
    /\ \E x \in remote : x.coll = Last.req[1].Name /\ x.validator = Some(<<"w">>)

ReadStep == \E r \in Res : Refresh(r)

\* What the server holds for the identity attributes of a state.
Present(kind, st, store) ==
    IF kind = "database"
    THEN \E x \in store : x.db = st.Name
    ELSE \E x \in store : x.db = st.Database /\ x.coll = st.Name
IdentifierOf(kind, st) ==
    IF kind = "database" THEN st.Name ELSE st.Database \o <<".">> \o st.Name
TitleListFailed(kind) == IF kind = "database" THEN TitleListDbs ELSE TitleListColls
TitleNotFound(kind) == IF kind = "database" THEN TitleDbNotFound ELSE TitleCollNotFound

\* C18: Read of a database or a collection issues one listing call and never
\* changes the store.  When the listing fails it reports the listing error;
\* when the listing has no match it reports "Database not found" /
\* "Collection not found"; in both cases it writes no state (the host keeps
\* what it held, or nothing for the Read of an import).  Otherwise it writes
\* the prior state with the Identifier derived anew from the identity
\* attributes.
C18_ReadIsPureAndReports ==
    /\ [](Invoked /\ Last.handler = "Read" =>
            LET kind == Kind(Last.res)
                st == Last.prior[1]
            IN  /\ Len(Last.calls) = 1
                /\ Last.fail =>
                       Last.diags = <<TitleListFailed(kind)>> /\ Last.wrote = None
                /\ (~Last.fail /\ ~Present(kind, st, remote)) =>
                       Last.diags = <<TitleNotFound(kind)>> /\ Last.wrote = None
                /\ (~Last.fail /\ Present(kind, st, remote)) =>
                       /\ Last.diags = <<>>
                       /\ Last.wrote = Some([st EXCEPT !.Id = Some(IdentifierOf(kind, st))])
                       /\ tf[Last.res] = Last.wrote
                /\ Last.diags # <<>> =>
                       tf[Last.res] = IF Last.host = "Import" THEN None ELSE Last.prior)
    /\ [][ReadStep => remote' = remote]_vars

\* A refresh of a collection the host tracks and the server no longer has,
\* in a store that is not empty.
C18_Witness ==
    /\ Invoked /\ Last.handler = "Read" /\ Last.host = "Refresh" /\ Last.res = "c1"
    /\ Last.diags = <<TitleCollNotFound>>
    /\ tf["c1"] = Last.prior
    /\ remote # {}

\* A Read that succeeded for a collection.
C18_WitnessFound ==
    /\ Invoked /\ Last.handler = "Read" /\ Last.res = "c1" /\ Last.diags = <<>>
    /\ tf["c1"][1].Id = Some(<<"a", ".", "c">>)

DeleteStep(r) == Destroy(r) \/ ApplyReplace(r)

\* C19: a Delete that succeeds removes exactly its target.  Collection
\* Delete for (D, C) takes collection C of D out of the store and leaves
\* every other collection of D and every other database as they were;
\* Database Delete for D takes D with all of its collections out of the
\* store and leaves every other database as it was.  A Delete that fails
\* changes nothing.
C19_DeleteRemovesExactlyTarget ==
    [][\A r \in Res :
        DeleteStep(r) =>
            LET st == tf[r][1]
            IN  /\ Len(Last'.calls) = 1
                /\ IF Last'.diags # <<>>
                   THEN remote' = remote
                   ELSE IF Kind(r) = "database"
                   THEN remote' = {x \in remote : x.db # st.Name}
                   ELSE remote' = remote \ {x \in remote : x.db = st.Database /\ x.coll = st.Name}]_vars

\* A collection was deleted while it was there, and its database still holds
\* another collection.
C19_Witness ==
    /\ Invoked /\ Last.handler = "Delete" /\ Last.res = "c1" /\ Last.diags = <<>>
    /\ Exists(Last.before, Last.prior[1].Database, Last.prior[1].Name)
    /\ ~Exists(remote, Last.prior[1].Database, Last.prior[1].Name)
    /\ CollectionsOf(remote, Last.prior[1].Database) # {}

\* A database was deleted and the other database still holds a collection.
C19_WitnessDatabase ==
    /\ Invoked /\ Last.handler = "Delete" /\ Last.res = "d1" /\ Last.diags = <<>>
    /\ Cardinality(CollectionsOf(Last.before, Last.prior[1].Name)) = 2
    /\ CollectionsOf(remote, Last.prior[1].Name) = {}
    /\ remote # {}

\* A Delete whose target the server did not hold when Delete was called.
DeleteOfAbsent ==
    /\ Invoked /\ Last.handler = "Delete"
    /\ ~Present(Kind(Last.res), Last.prior[1], Last.before)
TitleDropFailed(kind) == IF kind = "database" THEN TitleDropDb ELSE TitleDropColl

\* C20 as claimed: a Delete of a database or a collection that is absent
\* from the store at delete time fails with a remote-operation error.
C20_DeleteOfAbsentFails ==
    DeleteOfAbsent => Last.diags = <<TitleDropFailed(Kind(Last.res))>>

\* C20 as the code has it: absence of the target is no error.  A Delete of
\* an absent database or collection issues its drop call all the same and
\* succeeds exactly when that call did not fail for a reason of its own; the
\* store stays as it was; on success the host drops the resource from its
\* state, on failure the diagnostic is "Unable to drop ..." and the host
\* keeps the state.
C20_DeleteOfAbsentSucceeds ==
    DeleteOfAbsent =>
        /\ Len(Last.calls) = 1
        /\ Last.diags = <<>> <=> ~Last.fail
        /\ remote = Last.before
        /\ Last.diags = <<>> => tf[Last.res] = None
        /\ Last.diags # <<>> =>
               /\ Last.diags = <<TitleDropFailed(Kind(Last.res))>>
               /\ tf[Last.res] = Last.prior

\* A collection that was gone already was deleted without error.
C20_Witness ==
    /\ DeleteOfAbsent /\ Last.res = "c1" /\ Last.diags = <<>>
    /\ Last.calls = <<"Collection.Drop">>
    /\ tf["c1"] = None

\* The same for a database.
C20_WitnessDatabase ==
    /\ DeleteOfAbsent /\ Last.res = "d1" /\ Last.diags = <<>>
    /\ Last.calls = <<"Database.Drop">>

\* C21: for every collection that Create succeeded on, ImportState of the
\* Identifier that Create recorded reports no error and seeds database and
\* name as they were declared at Create, and nothing else: no validation
\* block and no id.
C21_ImportReproducesIdentity ==
    \A r \in Res :
        (CollectionCreateOf(r) /\ Last.diags = <<>>) =>
            LET plan == Last.req[1]
                imp == CollectionImportState(Last.wrote[1].Id[1], remote)
            IN  /\ imp.diags = <<>>
                /\ imp.state = Some([Database |-> plan.Database, Name |-> plan.Name,
                                     Validation |-> None, Id |-> None])

\* A Create that has finished without error, of a database or a collection.
CreatedBy(r) == Invoked /\ Last.res = r /\ Last.handler = "Create" /\ Last.done /\ Last.diags = <<>>

\* C22: import-state verification.  For a database and for a collection,
\* also one created with a validation block: ImportState of the Identifier
\* that Create recorded, followed by Read (neither disturbed by a failing
\* remote call), ends without error with the same attributes that Create
\* stored.
C22_ImportThenReadEqualsCreate ==
    \A r \in Res :
        CreatedBy(r) =>
            LET imp == HandlerImportState(Kind(r), Last.wrote[1].Id[1], remote)
            IN  /\ imp.diags = <<>>
                /\ LET rd == HandlerRead(Kind(r), imp.state[1], remote, FALSE)
                   IN  /\ rd.diags = <<>>
                       /\ rd.state = Last.wrote

ConvIndexType == conv # None /\ conv.kind = "indexType"

\* C23: convertToMongoIndexType maps "asc" to the integer 1, "desc" to the
\* integer -1 and returns every other string unchanged; convertToTfIndexType
\* maps the integer 1 to "asc" and -1 to "desc", fails for every other
\* integer, returns a string unchanged and fails for a value that is neither
\* an integer nor a string; and translating back what was translated gives
\* the declared string again, for every string.
C23_IndexTypeTranslation ==
    ConvIndexType =>
        /\ conv.toMongo # None =>
               LET m == conv.toMongo[1]
               IN  IF conv.declared = StrAsc THEN m.type \in IntTypes /\ m.int = 1
                   ELSE IF conv.declared = StrDesc THEN m.type \in IntTypes /\ m.int = 0 - 1
                   ELSE m = GoString(conv.declared)
        /\ conv.toTf # None =>
               LET v == conv.returned
                   t == conv.toTf[1]
               IN  IF v.type \in IntTypes
                   THEN IF v.int = 1 THEN t.err = None /\ t.str = StrAsc
                        ELSE IF v.int = 0 - 1 THEN t.err = None /\ t.str = StrDesc
                        ELSE t.err # None
                   ELSE IF v.type = "string"
                   THEN t.err = None /\ t.str = v.str
                   ELSE t.err # None
        /\ conv.back # None =>
               conv.back[1].err = None /\ conv.back[1].str = conv.declared

\* A Create or Read that has returned.
CreateOrReadReturned ==
    Invoked /\ Last.handler \in {"Create", "Read"} /\ Last.done

\* No remote call occurs twice in the calls of an invocation.
NoCallRepeated(calls) ==
    \A i, j \in 1..Len(calls) : calls[i] = calls[j] => i = j

\* C24: a Create or Read of a database or a collection writes a state to
\* its response exactly when it reported no error.  Every failed remote
\* call, the drop of the marker included, ends the invocation with exactly
\* one error and without state; no call is issued again; and the host stores
\* the state of an invocation without error, and after one with an error it
\* holds what it held before (nothing, for a Create or the Read of an import).
C24_StateWrittenIffNoError ==
    CreateOrReadReturned =>
        /\ Last.wrote # None <=> Last.diags = <<>>
        /\ Last.fail => Len(Last.diags) = 1 /\ Last.wrote = None
        /\ NoCallRepeated(Last.calls)
        /\ Last.diags = <<>> => tf[Last.res] = Last.wrote
        /\ Last.diags # <<>> =>
               tf[Last.res] = IF Last.host = "Refresh" THEN Last.prior ELSE None

\* A refresh of a database whose listing call failed: the host keeps the
\* state it held.
C24_Witness ==
    /\ CreateOrReadReturned /\ Last.handler = "Read" /\ Last.res = "d1"
    /\ Last.fail /\ Last.diags = <<TitleListDbs>> /\ Last.wrote = None
    /\ tf["d1"] = Last.prior /\ Last.prior # None
    /\ Present("database", Last.prior[1], remote)

\* A Database Create whose cleanup failed.
C24_WitnessCleanup ==
    /\ CreateOrReadReturned /\ Last.handler = "Create" /\ Last.res = "d1"
    /\ Last.fail /\ Len(Last.calls) = 2 /\ Last.wrote = None /\ tf["d1"] = None

\* C25: every Identifier that a successful Create or Read writes to state
\* splits on "." into the number of segments of its kind, 1 for a database
\* and 2 for a collection, whatever name Create accepted; decoding it gives
\* back the identity it was derived from.
C25_IdentifierDecodable ==
    (Invoked /\ Last.handler \in {"Create", "Read"} /\ Last.wrote # None) =>
        LET st == Last.wrote[1]
            id == st.Id[1]
        IN  /\ Segments(id) = ExpectedSegments(Kind(Last.res))
            /\ IF Kind(Last.res) = "database"
               THEN id = st.Name
               ELSE parseCollectionId(id) =
                        [err |-> FALSE,
                         id |-> Some([database |-> st.Database, collection |-> st.Name])]

\* A Create, Read or Delete of instance r, as one step.
CrdStep(r) == ApplyCreate(r) \/ Refresh(r) \/ Destroy(r) \/ ApplyReplace(r)

\* The handler of an invocation called again, on another store.
Replay(inv, store) ==
    LET kind == Kind(inv.res)
    IN  CASE inv.handler = "Create" -> HandlerCreate(kind, inv.req[1], store, inv.fail)
          [] inv.handler = "Read" -> HandlerRead(kind, inv.prior[1], store, inv.fail)
          [] inv.handler = "Delete" -> HandlerDelete(kind, inv.prior[1], store, inv.fail)

\* C26: Create, Read and Delete of different resources interleave freely,
\* call by call, and every interleaving is as good as a serial execution.
\* The one invocation of two calls is Database Create, and the drop that ends
\* it can always succeed, so the claim is: an invocation of another resource
\* that runs between the two calls of a Database Create for D has the
\* outcome (diagnostics, state) and the effect on the store that it has in a
\* serial execution, where it meets the store without the marker of D that
\* the Create is about to drop.
C26_InterleavingIsSerial ==
    [][\A r, q \in Res :
        (r # q /\ inflight[q] # None /\ CrdStep(r)) =>
            LET D == inflight[q][1].Name
                serial == Replay(Last', WithoutMarker(remote, D))
            IN  /\ Last'.diags = serial.diags
                /\ Last'.wrote = serial.state
                /\ WithoutMarker(remote', D) = serial.store]_vars

\* The most remote calls an invocation may issue.
MaxRemoteCalls(kind, handler) ==
    CASE handler = "Create" -> IF kind = "database" THEN 2 ELSE 1
      [] handler \in {"Read", "Delete"} -> 1
      [] handler \in {"Update", "ImportState"} -> 0

\* C27: every Create, Read, Update, Delete and ImportState of a database or
\* a collection issues at most 2 (Database Create), 1 (Collection Create,
\* Read, Delete) or 0 (Update, ImportState) remote calls, none of them twice;
\* a failed call ends the invocation with an error; an invocation that has
\* returned has either succeeded or reported at least one error; and the one
\* invocation that has not returned, a Database Create after its first
\* call, has one call left and nothing to wait for.
C27_BoundedRemoteCalls ==
    Invoked =>
        /\ Len(Last.calls) <= MaxRemoteCalls(Kind(Last.res), Last.handler)
        /\ NoCallRepeated(Last.calls)
        /\ Last.fail => Last.done /\ Len(Last.diags) >= 1
        /\ (Last.done /\ Last.handler \in {"Create", "Read"}) =>
               Last.wrote # None \/ Len(Last.diags) >= 1
        /\ ~Last.done =>
               /\ Kind(Last.res) = "database" /\ Last.handler = "Create"
               /\ Len(Last.calls) = 1
               /\ ENABLED DatabaseCreateFinish(Last.res)
        /\ \A r \in Res : inflight[r] # None => ENABLED DatabaseCreateFinish(r)

\* A Delete whose drop failed: one call, one error.
C27_Witness ==
    /\ Invoked /\ Last.handler = "Delete" /\ Last.res = "c1" /\ Last.fail
    /\ Last.calls = <<"Collection.Drop">> /\ Last.diags = <<TitleDropColl>>

\* A Database Create that failed at its second call.
C27_WitnessTwoCalls ==
    /\ Invoked /\ Last.handler = "Create" /\ Last.res = "d1" /\ Last.fail
    /\ Len(Last.calls) = 2 /\ Last.done

OptionalCollationFields == DOMAIN ZeroCollation \ {"Locale"}

\* C28: a nil collation bag translates to no collation at all, not to an
\* empty one; a bag that is there translates to a collation with the bag's
\* locale, with every optional field that is set copied as it is, and with
\* every optional field that is not set at its unset (zero) value.
C28_CollationTranslation ==
    (conv # None /\ conv.kind = "collation" /\ conv.out # None) =>
        LET co == conv.bag
            res == conv.out[1]
        IN  IF co = None
            THEN res = None
            ELSE /\ res # None
                 /\ res[1].Locale = co[1].Locale
                 /\ \A f \in OptionalCollationFields :
                       IF co[1][f] # None
                       THEN res[1][f] = co[1][f][1]
                       ELSE res[1][f] = ZeroCollation[f]

\* The nil bag was translated.
C28_Witness ==
    /\ conv # None /\ conv.kind = "collation"
    /\ conv.bag = None /\ conv.out = Some(None)

\* A bag with some fields set and some not was translated.
C28_WitnessSomeSet ==
    /\ conv # None /\ conv.kind = "collation" /\ conv.out # None
    /\ conv.bag # None
    /\ conv.bag[1].Strength = Some(2) /\ conv.bag[1].CaseLevel = None
    /\ conv.bag[1].Backwards = Some(TRUE)
    /\ conv.out[1][1].Strength = 2 /\ conv.out[1][1].Backwards

\* A Read for an identity on a store, its listing call not failing.
ReadOf(kind, st, store) == HandlerRead(kind, st, store, FALSE)
ReadNotFound(kind, st, store) == ReadOf(kind, st, store).diags = <<TitleNotFound(kind)>>
ReadFinds(kind, st, store) ==
    /\ ReadOf(kind, st, store).diags = <<>>
    /\ ReadOf(kind, st, store).state[1].Id = Some(IdentifierOf(kind, st))

\* The latest invocation is a Delete that succeeded.
Deleted == Invoked /\ Last.handler = "Delete" /\ Last.diags = <<>>

\* First half of C29: right after a Delete succeeded for a database or a
\* collection identity a Read for it reports not-found, and it still does
\* after whatever step comes next that is not a successful Create for the
\* same identity.
DeletedStaysNotFound ==
    /\ [](Deleted => ReadNotFound(Kind(Last.res), Last.prior[1], remote))
    /\ [][Deleted =>
            \/ ReadNotFound(Kind(Last.res), Last.prior[1], remote')
            \/ /\ Last'.handler = "Create" /\ Last'.done /\ Last'.diags = <<>>
               /\ Kind(Last'.res) = Kind(Last.res)
               /\ IdentifierOf(Kind(Last'.res), Last'.req[1])
                      = IdentifierOf(Kind(Last.res), Last.prior[1])]_vars

\* Second half of C29: right after a Create succeeded for a collection
\* identity a Read for it succeeds with the Identifier that Create recorded,
\* and it still does after whatever step comes next that is not a successful
\* Delete of the collection or of its database.
CreatedCollectionStaysFound ==
    /\ [](\A r \in Res : (CollectionCreateOf(r) /\ Last.diags = <<>>) =>
            /\ ReadFinds("collection", Last.wrote[1], remote)
            /\ Last.wrote[1].Id = Some(IdentifierOf("collection", Last.wrote[1])))
    /\ [][\A r \in Res : (CollectionCreateOf(r) /\ Last.diags = <<>>) =>
            \/ ReadFinds("collection", Last.wrote[1], remote')
            \/ /\ Last'.handler = "Delete" /\ Last'.diags = <<>>
               /\ \/ Last'.prior[1] = Last.wrote[1]
                  \/ /\ Kind(Last'.res) = "database"
                     /\ Last'.prior[1].Name = Last.wrote[1].Database]_vars

\* C29: after Delete succeeds for a database or collection identity, every
\* Read for that identity fails with the not-found error until a later Create
\* for the same identity succeeds; after Create succeeds for a collection
\* identity, every Read before the next Delete of it or of its database
\* succeeds and returns the Identifier that Create recorded.  (Reads whose
\* listing call does not fail; both halves are stated one step on from the
\* Delete, resp. the Create.)
C29_ReadFollowsCreateAndDelete ==
    DeletedStaysNotFound /\ CreatedCollectionStaysFound

\* The marker collection as Database Create for db makes it.
MarkerOf(db) == [db |-> db, coll |-> StrMarker, validator |-> None]

\* C30: Database Create for D never removes or alters a collection that was
\* there before the call.  Its first call only adds the marker of D; when a
\* collection "_terraform_created" exists in D already, the first call fails,
\* the store stays as it was and no drop follows.  Its second call takes
\* nothing out of the store but the marker that the first call created.
C30_DatabaseCreateDropsOnlyOwnMarker ==
    /\ [][\A r \in Res : (ApplyCreate(r) /\ Kind(r) = "database") =>
            LET D == Last'.req[1].Name
            IN  /\ remote \subseteq remote'
                /\ remote' \ remote \subseteq {MarkerOf(D)}
                /\ Exists(remote, D, StrMarker) =>
                       /\ Last'.diags = <<TitleCreateDb>>
                       /\ Last'.calls = <<"CreateCollection">>
                       /\ remote' = remote /\ inflight'[r] = None]_vars
    /\ [][\A r \in Res : DatabaseCreateFinish(r) =>
            LET D == inflight[r][1].Name
            IN  /\ remote' \subseteq remote
                /\ remote \ remote' \subseteq {MarkerOf(D)}]_vars

\* C31: when url is set and host is not, the URI Configure computes, and the
\* URI in the options of every connection attempt it makes, is the url as
\* given, whatever port, ssl, replica_set, direct and retrywrites are.
C31_UrlUsedVerbatim ==
    (Configured /\ UrlSet /\ ~HostSet) =>
        /\ Resp.uri = Some(Cfg.Url)
        /\ ConnectAttempts > 0 => Resp.opts # None /\ Resp.opts[1].uri = Cfg.Url

C31_Witness ==
    /\ Configured /\ UrlSet /\ ~HostSet /\ ConnectAttempts = 1
    /\ Cfg.Port # StrEmpty /\ Cfg.SSL /\ Cfg.ReplicaSet # StrEmpty
    /\ Cfg.Direct /\ Cfg.RetryWrites
    /\ Resp.opts[1].uri = Cfg.Url

\* A Collection Read that has written state.
CollectionReadOf(r) ==
    /\ Invoked /\ Last.res = r /\ Kind(r) = "collection"
    /\ Last.handler = "Read" /\ Last.diags = <<>>
\* The validators a collection on the server may carry.
RemoteValidators == {None} \cup {Some(v[1].Validator) : v \in Validations \ {None}}
\* The store with the validator of collection coll of db set to validator.
WithValidator(store, db, coll, validator) ==
    {IF x.db = db /\ x.coll = coll THEN [x EXCEPT !.validator = validator] ELSE x :
        x \in store}
\* The validator of the collection a state names, as the server holds it.
ValidatorOnServer(st, store) ==
    (CHOOSE x \in store : x.db = st.Database /\ x.coll = st.Name).validator
\* The validator a state's validation block declares.
ValidatorInState(st) ==
    IF st.Validation = None THEN None ELSE Some(st.Validation[1].Validator)

\* The states that ImportState seeds for a collection: identity only.
ImportSeeded ==
    {[Database |-> d, Name |-> n, Validation |-> None, Id |-> None] :
        d \in DbNames, n \in CollNames}

\* C32: the state a Collection Read writes is the prior state with the
\* Identifier set: database, name and validation are those of the prior state,
\* and the Read writes the same state whichever validator the collection on
\* the server carries.  The Read of an imported collection, called with the
\* seeded identity, writes no validation block whatever the collection
\* carries.
C32_ReadKeepsPriorValidation ==
    /\ \A r \in Res :
           CollectionReadOf(r) =>
               LET prior == Last.prior[1]
                   wrote == Last.wrote[1]
               IN  /\ wrote.Database = prior.Database
                   /\ wrote.Name = prior.Name
                   /\ wrote.Validation = prior.Validation
                   /\ wrote = [prior EXCEPT !.Id = wrote.Id]
                   /\ tf[r] = Last.wrote
                   /\ \A v \in RemoteValidators :
                         CollectionRead(prior,
                                        WithValidator(Last.before, prior.Database, prior.Name, v),
                                        FALSE).state = Last.wrote
    /\ \A st \in ImportSeeded :
          Present("collection", st, remote) =>
              CollectionRead(st, remote, FALSE).state
                  = Some([st EXCEPT !.Id = Some(IdentifierOf("collection", st))])

\* Drift: a refresh keeps a declared validation block that the collection on
\* the server does not carry.
C32_Witness ==
    /\ CollectionReadOf("c1") /\ Last.host = "Refresh"
    /\ Last.prior[1].Validation # None
    /\ ValidatorOnServer(Last.prior[1], remote) # ValidatorInState(Last.prior[1])
    /\ tf["c1"][1].Validation = Last.prior[1].Validation
\* Import: a collection on the server carries a validator, and the Read
\* of its import writes a state without validation block.
C32_WitnessImported ==
    \E st \in ImportSeeded :
        /\ Present("collection", st, remote)
        /\ ValidatorOnServer(st, remote) # None
        /\ CollectionRead(st, remote, FALSE).diags = <<>>
        /\ CollectionRead(st, remote, FALSE).state[1].Validation = None

=============================================================================
